---- MODULE Spec2Model ----
(***************************************************************************)
(* rbac-tool `policy-rules` command (cmd/policyrules_cmd.go).              *)
(*                                                                         *)
(* One run of the command's RunE closure: compile the subject pattern,     *)
(* create the cluster client, fetch the permissions, aggregate them per    *)
(* subject, filter the subjects by name, flatten the rules into table      *)
(* rows and write the table, the YAML or the JSON document.                *)
(*                                                                         *)
(* A Go string is modelled as the sequence of its characters, each a       *)
(* one-character string, so that matching, comparing, sorting and joining  *)
(* are computed character by character as the code computes them.          *)
(***************************************************************************)
EXTENDS Integers, Sequences, FiniteSets, TLC

-----------------------------------------------------------------------------
(* Characters and strings                                                  *)

\* ASCII code of every character the model's strings are made of.
Code ==
    "\n" :> 10 @@ "(" :> 40 @@ ")" :> 41 @@ "*" :> 42 @@ "," :> 44 @@ "-" :> 45 @@
    "." :> 46 @@ "/" :> 47 @@ "0" :> 48 @@ "1" :> 49 @@ "2" :> 50 @@ "3" :> 51 @@
    "4" :> 52 @@ "5" :> 53 @@ "6" :> 54 @@ "7" :> 55 @@ "8" :> 56 @@ "9" :> 57 @@
    ":" :> 58 @@ "?" :> 63 @@ "A" :> 65 @@ "B" :> 66 @@ "C" :> 67 @@ "D" :> 68 @@
    "E" :> 69 @@ "F" :> 70 @@ "G" :> 71 @@ "H" :> 72 @@ "I" :> 73 @@ "J" :> 74 @@
    "K" :> 75 @@ "L" :> 76 @@ "M" :> 77 @@ "N" :> 78 @@ "O" :> 79 @@ "P" :> 80 @@
    "Q" :> 81 @@ "R" :> 82 @@ "S" :> 83 @@ "T" :> 84 @@ "U" :> 85 @@ "V" :> 86 @@
    "W" :> 87 @@ "X" :> 88 @@ "Y" :> 89 @@ "Z" :> 90 @@ "^" :> 94 @@ "a" :> 97 @@
    "b" :> 98 @@ "c" :> 99 @@ "d" :> 100 @@ "e" :> 101 @@ "f" :> 102 @@ "g" :> 103 @@
    "h" :> 104 @@ "i" :> 105 @@ "j" :> 106 @@ "k" :> 107 @@ "l" :> 108 @@ "m" :> 109 @@
    "n" :> 110 @@ "o" :> 111 @@ "p" :> 112 @@ "q" :> 113 @@ "r" :> 114 @@ "s" :> 115 @@
    "t" :> 116 @@ "u" :> 117 @@ "v" :> 118 @@ "w" :> 119 @@ "x" :> 120 @@ "y" :> 121 @@
    "z" :> 122

\* strings.Compare: byte-wise lexicographic comparison, -1, 0 or +1.
RECURSIVE Compare(_, _)
Compare(a, b) ==
    IF a = <<>> /\ b = <<>> THEN 0
    ELSE IF a = <<>> THEN -1
    ELSE IF b = <<>> THEN 1
    ELSE IF Code[Head(a)] < Code[Head(b)] THEN -1
    ELSE IF Code[Head(a)] > Code[Head(b)] THEN 1
    ELSE Compare(Tail(a), Tail(b))

\* strings.Join(elems, ","): the elements with a comma between neighbours.
RECURSIVE Join(_)
Join(elems) ==
    IF elems = <<>> THEN <<>>
    ELSE IF Len(elems) = 1 THEN elems[1]
    ELSE elems[1] \o <<",">> \o Join(Tail(elems))

-----------------------------------------------------------------------------
(* regexp.Compile and Regexp.MatchString, for the patterns of the model *)
(*                                                                         *)
(* The modelled fragment of the RE2 syntax: an optional leading flag group *)
(* (?flags), then literals, the dot, the begin anchor ^ and the postfix    *)
(* star.  InFragment says which pattern strings belong to it; Init draws   *)
(* the patterns of a run from it.                                          *)

\* i folds case, m lets ^ match at line starts, s lets the dot match a
\* newline, U swaps greedy and lazy repetition (which changes where a match
\* lies, not whether there is one).
FlagLetters == {"i", "m", "s", "U"}

\* The pattern opens with a flag group "(?flags)"; FlagEnd is its ")".
HasFlagGroup(p) ==
    /\ Len(p) >= 4
    /\ p[1] = "(" /\ p[2] = "?"
    /\ \E k \in 4..Len(p) : p[k] = ")" /\ \A j \in 3..(k - 1) : p[j] \in FlagLetters

FlagEnd(p) ==
    CHOOSE k \in 4..Len(p) : p[k] = ")" /\ \A j \in 3..(k - 1) : p[j] \in FlagLetters

PatternFlags(p) ==
    IF HasFlagGroup(p) THEN {p[j] : j \in 3..(FlagEnd(p) - 1)} ELSE {}

PatternBody(p) ==
    IF HasFlagGroup(p) THEN SubSeq(p, FlagEnd(p) + 1, Len(p)) ELSE p

InFragment(p) ==
    \A i \in DOMAIN PatternBody(p) : PatternBody(p)[i] \notin {"(", ")", "?", "\n"}

\* The parser's loop over the pattern body: atoms is the stack of parsed
\* pieces.  A star needs a piece to repeat ("missing argument to repetition
\* operator") that is not itself a repetition ("invalid nested repetition
\* operator"); both are compile errors.
RECURSIVE ParseAtoms(_, _, _)
ParseAtoms(body, flags, atoms) ==
    IF body = <<>> THEN [err |-> FALSE, atoms |-> atoms]
    ELSE LET c == Head(body)
             n == Len(atoms)
         IN  IF c = "*"
             THEN IF n = 0 \/ atoms[n].star
                  THEN [err |-> TRUE, atoms |-> <<>>]
                  ELSE ParseAtoms(Tail(body), flags,
                                  [atoms EXCEPT ![n].star = TRUE])
             ELSE ParseAtoms(Tail(body), flags,
                     Append(atoms,
                            [kind  |-> IF c = "^" THEN "bol"
                                       ELSE IF c = "." THEN "any" ELSE "lit",
                             ch    |-> c,
                             fold  |-> "i" \in flags,
                             multi |-> "m" \in flags,
                             dotNL |-> "s" \in flags,
                             star  |-> FALSE]))

\* regexp.Compile: [err, atoms]; err is TRUE when the pattern does not parse.
Compile(pattern) == ParseAtoms(PatternBody(pattern), PatternFlags(pattern), <<>>)

\* Simple case folding of (?i) on ASCII: an upper-case letter and its
\* lower-case letter are one class.
Fold(c) == IF Code[c] >= 65 /\ Code[c] <= 90 THEN Code[c] + 32 ELSE Code[c]

\* One character against one consuming atom.  The dot matches a newline
\* only under the s flag.
AtomMatches(atom, c) ==
    IF atom.kind = "any" THEN atom.dotNL \/ c # "\n"
    ELSE IF atom.fold THEN Fold(c) = Fold(atom.ch)
    ELSE c = atom.ch

\* ^ at position p of s: the start of the text, or under (?m) the start of
\* a line.
AtBegin(atom, s, p) == p = 1 \/ (atom.multi /\ s[p - 1] = "\n")

\* Do the atoms from index i on match s starting at position p?
RECURSIVE MatchHere(_, _, _, _)
MatchHere(atoms, i, s, p) ==
    IF i > Len(atoms) THEN TRUE
    ELSE LET a == atoms[i]
         IN  IF a.kind = "bol"
             THEN \/ a.star /\ MatchHere(atoms, i + 1, s, p)
                  \/ AtBegin(a, s, p) /\ MatchHere(atoms, i + 1, s, p)
             ELSE IF a.star
             THEN \E k \in 0..(Len(s) - p + 1) :
                     /\ \A j \in p..(p + k - 1) : AtomMatches(a, s[j])
                     /\ MatchHere(atoms, i + 1, s, p + k)
             ELSE /\ p <= Len(s)
                  /\ AtomMatches(a, s[p])
                  /\ MatchHere(atoms, i + 1, s, p + 1)

\* Regexp.MatchString: the pattern matches somewhere in s.
MatchString(re, s) == \E p \in 1..(Len(s) + 1) : MatchHere(re.atoms, 1, s, p)

-----------------------------------------------------------------------------
(* sort.Strings and sort.Slice                                             *)
(*                                                                         *)
(* For a slice of at most six elements every release of Go's sort package  *)
(* runs insertion sort alone: for i from the second element on, the        *)
(* element sinks to the left while it is less than its left neighbour.     *)
(* The slices of the model stay below that length.                         *)

Swap(s, i, j) == [s EXCEPT ![i] = s[j], ![j] = s[i]]

\* RowLess comparing the names alone.
RowLessByNameOnly(ri, rj) == Compare(ri[2], rj[2]) < 0

\* The less function handed to sort.Slice: by kind (column 0), then by
\* name (column 1).
RowLess(ri, rj) ==
    IF Compare(ri[1], rj[1]) = 0
    THEN Compare(ri[2], rj[2]) < 0
    ELSE Compare(ri[1], rj[1]) < 0

\* The less of sort.Strings.
StringLess(a, b) == Compare(a, b) < 0

\* by = "rows" sorts table rows with RowLess, by = "strings" sorts strings.
Less(by, a, b) == IF by = "rows" THEN RowLess(a, b) ELSE StringLess(a, b)

RECURSIVE Sink(_, _, _)
Sink(by, s, j) ==
    IF j > 1 /\ Less(by, s[j], s[j - 1])
    THEN Sink(by, Swap(s, j, j - 1), j - 1)
    ELSE s

RECURSIVE InsertionSort(_, _, _)
InsertionSort(by, s, i) ==
    IF i > Len(s) THEN s ELSE InsertionSort(by, Sink(by, s, i), i + 1)

SortStrings(l) == InsertionSort("strings", l, 2)

SortRows(rs) == InsertionSort("rows", rs, 2)

-----------------------------------------------------------------------------
(* Normalising a rule and rendering it as a table row                      *)

\* rbac.ReplaceToCore: the empty API group is written "core", in place.
ReplaceToCore(l) == [i \in DOMAIN l |-> IF l[i] = <<>> THEN <<"c", "o", "r", "e">> ELSE l[i]]

\* rbac.ReplaceToWildCard: an empty entry is written "*", in place.
ReplaceToWildCard(l) == [i \in DOMAIN l |-> IF l[i] = <<>> THEN <<"*">> ELSE l[i]]

\* The rule's five slices after the replace calls and the five sort.Strings
\* calls.  The callees get the slice by value and return nothing, so a
\* slice keeps its length; its elements are overwritten in the backing
\* array the aggregate shares.
NormalizeRule(rule) ==
    [APIGroups       |-> SortStrings(ReplaceToCore(rule.APIGroups)),
     Resources       |-> SortStrings(ReplaceToWildCard(rule.Resources)),
     ResourceNames   |-> SortStrings(ReplaceToWildCard(rule.ResourceNames)),
     Verbs           |-> SortStrings(ReplaceToWildCard(rule.Verbs)),
     NonResourceURLs |-> SortStrings(ReplaceToWildCard(rule.NonResourceURLs))]

Dash == <<"-">>

Star == <<"*">>

APIGroupsColumn(rule) ==
    IF Len(rule.APIGroups) = 0 THEN Dash ELSE Join(rule.APIGroups)

ResourcesColumn(rule) ==
    IF Len(rule.Resources) = 0 THEN Dash ELSE Join(rule.Resources)

\* ResourceNamesColumn with the test on the API groups inverted.
ResourceNamesColumnSwapped(rule) ==
    IF Len(rule.ResourceNames) = 0
    THEN IF Len(rule.APIGroups) = 0 THEN Star ELSE Dash
    ELSE Join(rule.ResourceNames)

ResourceNamesColumn(rule) ==
    IF Len(rule.ResourceNames) = 0
    THEN IF Len(rule.APIGroups) = 0 THEN Dash ELSE Star
    ELSE Join(rule.ResourceNames)

NonResourceURLsColumn(rule) ==
    IF Len(rule.NonResourceURLs) = 0 THEN Dash ELSE Join(rule.NonResourceURLs)

VerbsColumn(rule) == Join(rule.Verbs)

\* NamespaceColumn without the replacement of the empty namespace.
NamespaceColumnAsIs(namespace) == namespace

\* The cluster-wide scope, the empty namespace, is shown as "*".
NamespaceColumn(namespace) == IF namespace = <<>> THEN Star ELSE namespace

\* One row from a subject, a namespace and a normalised rule.
TableRow(kind, name, namespace, rule) ==
    <<kind, name, VerbsColumn(rule), NamespaceColumn(namespace),
      APIGroupsColumn(rule), ResourcesColumn(rule),
      ResourceNamesColumn(rule), NonResourceURLsColumn(rule)>>

\* The inner loop: one row per rule of a namespace, in the list's order.
RowsOfRules(kind, name, namespace, rules) ==
    [k \in DOMAIN rules |-> TableRow(kind, name, namespace, NormalizeRule(rules[k]))]

\* The middle loop ranges over the subject's map of namespaces; nsOrder is
\* the order this run of the map iteration yields the keys in.
RECURSIVE RowsOfPolicy(_, _, _, _)
RowsOfPolicy(kind, name, rulesByNs, nsOrder) ==
    IF nsOrder = <<>> THEN <<>>
    ELSE RowsOfRules(kind, name, Head(nsOrder), rulesByNs[Head(nsOrder)])
         \o RowsOfPolicy(kind, name, rulesByNs, Tail(nsOrder))

\* The outer loop over the filtered subjects: h is the store of the rule
\* maps, nsOrders[j] the key order of the j-th subject's map iteration.
RECURSIVE RowsFrom(_, _, _, _)
RowsFrom(filtered, h, nsOrders, j) ==
    IF j > Len(filtered) THEN <<>>
    ELSE RowsOfPolicy(filtered[j].Subject.Kind, filtered[j].Subject.Name,
                      h[filtered[j].Rules], nsOrders[j])
         \o RowsFrom(filtered, h, nsOrders, j + 1)

\* The rule store after the loops: every rule of a filtered subject has
\* been normalised where it is stored.
NormalizedStore(filtered, h) ==
    [r \in DOMAIN h |->
        IF \E j \in DOMAIN filtered : filtered[j].Rules = r
        THEN [ns \in DOMAIN h[r] |->
                 [k \in DOMAIN h[r][ns] |-> NormalizeRule(h[r][ns][k])]]
        ELSE h[r]]

-----------------------------------------------------------------------------
(* The inputs of a run                                                     *)

\* The longest list of permission entries the cluster holds.
MaxEntries == 2

sUser == <<"U", "s", "e", "r">>
sGroup == <<"G", "r", "o", "u", "p">>
sServiceAccount == <<"S", "e", "r", "v", "i", "c", "e", "A", "c", "c", "o", "u", "n", "t">>
sBob == <<"b", "o", "b">>
sBobCap == <<"B", "o", "b">>
sAdmins == <<"a", "d", "m", "i", "n", "s">>
sDefault == <<"d", "e", "f", "a", "u", "l", "t">>
sDev == <<"d", "e", "v">>

saDefault == [Kind |-> sServiceAccount, Name |-> sDefault]
userBob == [Kind |-> sUser, Name |-> sBob]
userBobCap == [Kind |-> sUser, Name |-> sBobCap]
groupAdmins == [Kind |-> sGroup, Name |-> sAdmins]

\* get and list on pods, no API group given.
rulePods ==
    [APIGroups |-> <<>>, Resources |-> <<<<"p", "o", "d", "s">>>>, ResourceNames |-> <<>>,
     Verbs |-> <<<<"g", "e", "t">>, <<"l", "i", "s", "t">>>>, NonResourceURLs |-> <<>>]

\* The core API group written as the empty string, verbs not in order.
ruleCore ==
    [APIGroups |-> <<<<>>>>, Resources |-> <<<<"p", "o", "d", "s">>>>, ResourceNames |-> <<>>,
     Verbs |-> <<<<"l", "i", "s", "t">>, <<"g", "e", "t">>>>, NonResourceURLs |-> <<>>]

\* Named resources, one of the names empty, names not in order.
ruleNamed ==
    [APIGroups |-> <<<<"a", "p", "p", "s">>>>, Resources |-> <<<<"d", "e", "p", "l", "o", "y", "m", "e", "n", "t", "s">>>>,
     ResourceNames |-> <<<<"w", "e", "b">>, <<>>>>, Verbs |-> <<<<"g", "e", "t">>>>,
     NonResourceURLs |-> <<>>]

\* A rule on non-resource URLs only, with no verb.
ruleURLs ==
    [APIGroups |-> <<>>, Resources |-> <<>>, ResourceNames |-> <<>>,
     Verbs |-> <<>>, NonResourceURLs |-> <<<<"/", "m", "e", "t", "r", "i", "c", "s">>, <<"/", "h", "e", "a", "l", "t", "h", "z">>>>]

Entry(subject, namespace, rule) ==
    [Subject |-> subject, Namespace |-> namespace, Rule |-> rule]

\* The permission entries a cluster of the model is made of.
EntryPool ==
    {Entry(saDefault, <<>>, rulePods),
     Entry(userBob, <<>>, ruleCore),
     Entry(userBob, sDev, ruleNamed),
     Entry(userBob, <<>>, rulePods),
     Entry(groupAdmins, <<>>, ruleURLs),
     Entry(userBobCap, sDev, rulePods)}

SeqsUpTo(S, n) == UNION {[1..k -> S] : k \in 0..n}

\* Values of the --regex option; the empty string is the option not given.
RegexPool == {<<>>, <<".", "*">>, <<"b", "o", "b">>, <<"^", "B">>, <<"*", "a">>}

\* Positional arguments: none, one pattern, one bad pattern, two arguments.
ArgsPool == {<<>>, <<<<"b", "o", "b">>>>, <<<<"a", "*", "*">>>>, <<<<"b">>, <<"x">>>>}

\* Values of the --output option.
OutputPool == {"table", "yaml", "json", "xml"}

-----------------------------------------------------------------------------
(* The state of one run of RunE                                            *)

VARIABLES
    regex,            \* --regex option
    args,             \* positional arguments
    inverse,          \* --not option
    output,           \* --output option
    cluster,          \* the permission entries the cluster holds
    pc,               \* the statement RunE is at
    ran,              \* the steps RunE has carried out
    re,               \* the compiled pattern
    perms,            \* result of rbac.NewPermissionsFromCluster
    policies,         \* result of rbac.NewSubjectPermissions
    store,            \* the rule maps the policies point to
    filteredPolicies, \* the policies kept by the filter
    rows,             \* the table rows
    stdout,           \* what has been written to os.Stdout
    err               \* the error RunE returned, "" for nil

vars == <<regex, args, inverse, output, cluster, pc, ran, re, perms, policies,
          store, filteredPolicies, rows, stdout, err>>

inputs == <<regex, args, inverse, output, cluster>>

Init ==
    /\ regex \in {r \in RegexPool : InFragment(r)}
    /\ args \in {a \in ArgsPool : \A i \in DOMAIN a : InFragment(a[i])}
    /\ inverse \in BOOLEAN
    /\ output \in OutputPool
    /\ cluster \in SeqsUpTo(EntryPool, MaxEntries)
    /\ pc = "compile"
    /\ ran = {}
    /\ re = [err |-> FALSE, atoms |-> <<>>]
    /\ perms = <<>>
    /\ policies = <<>>
    /\ store = <<>>
    /\ filteredPolicies = <<>>
    /\ rows = <<>>
    /\ stdout = <<>>
    /\ err = ""

-----------------------------------------------------------------------------
(* The steps of RunE                                                       *)

\* RunE returns e: nothing runs after it.
Return(e) == err' = e /\ pc' = "done"

\* The pattern string handed to regexp.Compile: the --regex option as it
\* is; else ".*" unless there is exactly one argument; else the argument
\* behind the flag group "(?mi)".
SubjectPattern(rx, as) ==
    IF rx # <<>> THEN rx
    ELSE IF Len(as) # 1 THEN <<".", "*">>
    ELSE <<"(", "?", "m", "i", ")">> \o as[1]

\* CompileFailed with the error of regexp.Compile dropped.
CompileErrorIgnored(c) == FALSE

\* "if err != nil" after the compilation.
CompileFailed(c) == c.err

CompilePattern ==
    /\ pc = "compile"
    /\ LET c == Compile(SubjectPattern(regex, args))
       IN  IF CompileFailed(c)
           THEN /\ Return("error parsing regexp")
                /\ UNCHANGED <<re, ran>>
           ELSE /\ re' = c
                /\ ran' = ran \cup {"compile"}
                /\ pc' = "client"
                /\ err' = err
    /\ UNCHANGED <<inputs, perms, policies, store, filteredPolicies, rows, stdout>>

\* kube.NewClient: the cluster may or may not be reachable.
NewClient ==
    /\ pc = "client"
    /\ \E ok \in BOOLEAN :
          IF ok
          THEN ran' = ran \cup {"client"} /\ pc' = "fetch" /\ err' = err
          ELSE Return("Failed to create kubernetes client") /\ ran' = ran
    /\ UNCHANGED <<inputs, re, perms, policies, store, filteredPolicies, rows, stdout>>

\* rbac.NewPermissionsFromCluster: the snapshot of the cluster, or an error.
FetchPermissions ==
    /\ pc = "fetch"
    /\ \E ok \in BOOLEAN :
          IF ok
          THEN /\ perms' = cluster
               /\ ran' = ran \cup {"fetch"}
               /\ pc' = "aggregate"
               /\ err' = err
          ELSE Return("upstream error") /\ UNCHANGED <<perms, ran>>
    /\ UNCHANGED <<inputs, re, policies, store, filteredPolicies, rows, stdout>>

\* The orders a finite set can be listed in.
Perms(S) ==
    {f \in [1..Cardinality(S) -> S] : \A i, j \in DOMAIN f : i # j => f[i] # f[j]}

Subjects(ps) == {ps[i].Subject : i \in DOMAIN ps}

\* The rules the entries give a subject in a namespace, in the entries' order.
RulesOf(ps, subject, namespace) ==
    LET sel == SelectSeq(ps, LAMBDA e : e.Subject = subject /\ e.Namespace = namespace)
    IN  [k \in DOMAIN sel |-> sel[k].Rule]

NamespacesOf(ps, subject) ==
    {ps[i].Namespace : i \in {k \in DOMAIN ps : ps[k].Subject = subject}}

\* rbac.NewSubjectPermissions: one record per distinct subject, listed in
\* the order `order`; its Rules field points to the subject's map from
\* namespace to rule list in the store.
NewSubjectPermissions(order) ==
    [i \in DOMAIN order |-> [Subject |-> order[i], Rules |-> i]]

NewRuleStore(ps, order) ==
    [i \in DOMAIN order |->
        [ns \in NamespacesOf(ps, order[i]) |-> RulesOf(ps, order[i], ns)]]

Aggregate ==
    /\ pc = "aggregate"
    /\ \E order \in Perms(Subjects(perms)) :
          /\ policies' = NewSubjectPermissions(order)
          /\ store' = NewRuleStore(perms, order)
    /\ ran' = ran \cup {"aggregate"}
    /\ pc' = "filter"
    /\ UNCHANGED <<inputs, re, perms, filteredPolicies, rows, stdout, err>>

\* Keep with the --not option forgotten.
KeepIgnoringInverse(match, inv) == match

\* The if/continue ladder of the filter loop: is the subject appended?
Keep(match, inv) ==
    IF match
    THEN IF inv THEN FALSE ELSE TRUE
    ELSE IF ~inv THEN FALSE ELSE TRUE

\* The filter loop: the kept policies, appended in the order of policies.
FilterPolicies(ps, rx, inv) ==
    SelectSeq(ps, LAMBDA p : Keep(MatchString(rx, p.Subject.Name), inv))

Filter ==
    /\ pc = "filter"
    /\ filteredPolicies' = FilterPolicies(policies, re, inverse)
    /\ ran' = ran \cup {"filter"}
    /\ pc' = "rows"
    /\ UNCHANGED <<inputs, re, perms, policies, store, rows, stdout, err>>

\* The key orders the map iterations of one pass over `filtered` can take.
NsOrders(filtered, h) ==
    {f \in [DOMAIN filtered -> UNION {Perms(DOMAIN h[r]) : r \in DOMAIN h}] :
        \A j \in DOMAIN filtered : f[j] \in Perms(DOMAIN h[filtered[j].Rules])}

\* The row-building loops, run whatever the output mode is.
BuildRows ==
    /\ pc = "rows"
    /\ \E nsOrders \in NsOrders(filteredPolicies, store) :
          rows' = RowsFrom(filteredPolicies, store, nsOrders, 1)
    /\ store' = NormalizedStore(filteredPolicies, store)
    /\ ran' = ran \cup {"rows"}
    /\ pc' = "output"
    /\ UNCHANGED <<inputs, re, perms, policies, filteredPolicies, stdout, err>>

Header ==
    <<"TYPE", "SUBJECT", "VERBS", "NAMESPACE", "API GROUP", "KIND", "NAMES",
      "NonResourceURI">>

\* case "table": sort the rows in place, hand them to the table writer.
OutputTable ==
    /\ pc = "output"
    /\ output = "table"
    /\ rows' = SortRows(rows)
    /\ stdout' = Append(stdout, [format |-> "table", header |-> Header,
                                 rows |-> rows', doc |-> <<>>])
    /\ Return("")
    /\ ran' = ran \cup {"output"}
    /\ UNCHANGED <<inputs, re, perms, policies, store, filteredPolicies>>

\* rbac.NewSubjectPermissionsList: the document built from the filtered
\* policies as they are stored when it is called.
NewSubjectPermissionsList(filtered, h) ==
    [j \in DOMAIN filtered |->
        [Subject |-> filtered[j].Subject, Rules |-> h[filtered[j].Rules]]]

\* case "yaml" and case "json": marshal the document and print it.  The
\* encoders differ in the bytes, not in the values they write; the model
\* records the values.
OutputDocument(format) ==
    /\ pc = "output"
    /\ output = format
    /\ stdout' = Append(stdout,
                        [format |-> format, header |-> <<>>, rows |-> <<>>,
                         doc |-> NewSubjectPermissionsList(filteredPolicies, store)])
    /\ Return("")
    /\ ran' = ran \cup {"output"}
    /\ UNCHANGED <<inputs, re, perms, policies, store, filteredPolicies, rows>>

OutputYaml == OutputDocument("yaml")

OutputJson == OutputDocument("json")

\* default: no output mode of that name.
OutputUnsupported ==
    /\ pc = "output"
    /\ output \notin {"table", "yaml", "json"}
    /\ Return("Unsupported output format")
    /\ UNCHANGED <<inputs, ran, re, perms, policies, store, filteredPolicies,
                   rows, stdout>>

Next ==
    \/ CompilePattern
    \/ NewClient
    \/ FetchPermissions
    \/ Aggregate
    \/ Filter
    \/ BuildRows
    \/ OutputTable
    \/ OutputYaml
    \/ OutputJson
    \/ OutputUnsupported

Spec == Init /\ [][Next]_vars

-----------------------------------------------------------------------------
(* Properties                                                              *)

SupportedOutputs == {"table", "yaml", "json"}

\* The policy at index i of policies is among the filtered ones.
Kept(i) == \E j \in DOMAIN filteredPolicies : filteredPolicies[j] = policies[i]

\* s is t with some elements left out: same relative order, nothing added,
\* nothing twice.
IsSubsequence(s, t) ==
    \E f \in [DOMAIN s -> DOMAIN t] :
        /\ \A j \in DOMAIN s : s[j] = t[f[j]]
        /\ \A j, k \in DOMAIN s : j < k => f[j] < f[k]

\* C1: once the filter has run, a policy of the aggregate is kept exactly
\* when (its name matches the compiled pattern) differs from the --not
\* flag, and the filtered list is a subsequence of the aggregate.
C1_FilterTruthTable ==
    "filter" \in ran =>
        /\ \A i \in DOMAIN policies :
              Kept(i) <=> (MatchString(re, policies[i].Subject.Name) # inverse)
        /\ IsSubsequence(filteredPolicies, policies)

\* C1 witness: an inverted filter has kept one policy and dropped another.
C1_Witness ==
    /\ "filter" \in ran
    /\ inverse
    /\ Len(policies) >= 2
    /\ Len(filteredPolicies) >= 1
    /\ Len(filteredPolicies) < Len(policies)

\* C2: with an unsupported output mode, no fetch, aggregation, filtering or
\* row building ever runs and nothing is written.
C2_UnsupportedOutputFailsFirst ==
    output \notin SupportedOutputs =>
        /\ ran \cap {"fetch", "aggregate", "filter", "rows"} = {}
        /\ stdout = <<>>

\* C3: when the pattern does not compile, the run ends at once with the
\* compile error: no client, no fetch, no aggregation, no filtering, no
\* output.
C3_BadPatternFailsFirst ==
    Compile(SubjectPattern(regex, args)).err =>
        /\ pc \in {"compile", "done"}
        /\ pc = "done" => err = "error parsing regexp"
        /\ ran = {}
        /\ perms = <<>> /\ policies = <<>> /\ filteredPolicies = <<>>
        /\ rows = <<>> /\ stdout = <<>>

\* C3 witness: a run given one bad positional pattern has returned.
C3_Witness ==
    /\ pc = "done"
    /\ regex = <<>>
    /\ Len(args) = 1
    /\ Compile(SubjectPattern(regex, args)).err
    /\ err = "error parsing regexp"

\* Two names that differ in letter case only.
SameButCase(a, b) ==
    /\ Len(a) = Len(b)
    /\ \A i \in DOMAIN a : Fold(a[i]) = Fold(b[i])

\* C4: however the pattern was given, two subjects whose names differ only
\* in letter case are both kept or both dropped.
C4_CaseInsensitive ==
    "filter" \in ran =>
        \A i, j \in DOMAIN policies :
            SameButCase(policies[i].Subject.Name, policies[j].Subject.Name)
                => (Kept(i) <=> Kept(j))

\* Row a does not come after row b in (kind, then name) order.
KindNameLeq(a, b) ==
    \/ Compare(a[1], b[1]) < 0
    \/ Compare(a[1], b[1]) = 0 /\ Compare(a[2], b[2]) <= 0

\* The tables written so far.
Tables == {stdout[k].rows : k \in {n \in DOMAIN stdout : stdout[n].format = "table"}}

\* C5: the rows of a written table are non-decreasing in (kind, then name),
\* and a row of Group admins comes before a row of User bob.
C5_TableSorted ==
    \A tbl \in Tables :
        /\ \A i, j \in DOMAIN tbl : i < j => KindNameLeq(tbl[i], tbl[j])
        /\ \A i, j \in DOMAIN tbl :
              (tbl[i][1] = sGroup /\ tbl[i][2] = sAdmins /\
               tbl[j][1] = sUser /\ tbl[j][2] = sBob) => i < j

\* C5 witness: a table of two rows was written whose rows were built with
\* User bob before Group admins.
C5_Witness ==
    /\ \E tbl \in Tables : Len(tbl) = 2
    /\ Len(filteredPolicies) = 2
    /\ filteredPolicies[1].Subject = userBob
    /\ filteredPolicies[2].Subject = groupAdmins

\* The rows of tbl that belong to a subject and a namespace column.
RowsFor(tbl, subject, nsColumn) ==
    SelectSeq(tbl, LAMBDA r : r[1] = subject.Kind /\ r[2] = subject.Name
                              /\ r[4] = nsColumn)

\* C6: the rows of one subject come in the order of its rules in the
\* aggregate, and the written table is the same whatever order the
\* iteration over a subject's namespaces takes.
C6_RowOrderDetermined ==
    \A tbl \in Tables :
        /\ \A j \in DOMAIN filteredPolicies :
              \A ns \in DOMAIN store[filteredPolicies[j].Rules] :
                 RowsFor(tbl, filteredPolicies[j].Subject, NamespaceColumn(ns))
                   = RowsOfRules(filteredPolicies[j].Subject.Kind,
                                 filteredPolicies[j].Subject.Name, ns,
                                 store[filteredPolicies[j].Rules][ns])
        /\ \A nsOrders \in NsOrders(filteredPolicies, store) :
              tbl = SortRows(RowsFrom(filteredPolicies, store, nsOrders, 1))

\* The rules of the cluster's entries as they were handed to the rows of
\* the filtered subjects: one <<j, ns, k>> per filtered subject j,
\* namespace ns and position k in the subject's rule list of ns.
RuleSlots ==
    {<<j, ns, k>> \in (DOMAIN filteredPolicies)
                      \X {cluster[i].Namespace : i \in DOMAIN cluster}
                      \X (DOMAIN cluster) :
        k <= Len(RulesOf(cluster, filteredPolicies[j].Subject, ns))}

\* The rule of a slot as the cluster delivered it.
RawRule(slot) ==
    RulesOf(cluster, filteredPolicies[slot[1]].Subject, slot[2])[slot[3]]

\* How often value v occurs among the images of the set S under F.
Count(S, F(_), v) == Cardinality({x \in S : F(x) = v})

\* A multi-valued field as a column: the dash when empty, else the values
\* made canonical (empty string to token), sorted and joined by commas.
Rendered(field, token) ==
    IF field = <<>> THEN Dash
    ELSE Join(SortStrings([i \in DOMAIN field |->
                              IF field[i] = <<>> THEN token ELSE field[i]]))

\* C7: in every row, empty resource names are shown as "*" when the rule
\* has API groups and as "-" when it has none, the two tokens differ, and
\* resource names that are not empty are shown as their values (made
\* canonical and sorted, as every field is) joined by commas.
C7_ResourceNamesColumn ==
    "rows" \in ran =>
        LET Shown(i) == <<rows[i][1], rows[i][2], rows[i][4], rows[i][7]>>
            Wanted(s) ==
                <<filteredPolicies[s[1]].Subject.Kind,
                  filteredPolicies[s[1]].Subject.Name,
                  IF s[2] = <<>> THEN <<"*">> ELSE s[2],
                  IF RawRule(s).ResourceNames = <<>>
                  THEN IF RawRule(s).APIGroups # <<>> THEN <<"*">> ELSE <<"-">>
                  ELSE Rendered(RawRule(s).ResourceNames, <<"*">>)>>
        IN  /\ <<"*">> # <<"-">>
            /\ \A v \in {Shown(i) : i \in DOMAIN rows} \cup {Wanted(s) : s \in RuleSlots} :
                  Count(DOMAIN rows, Shown, v) = Count(RuleSlots, Wanted, v)

\* C7 witness: rows were built from a rule without resource names that has
\* API groups and from one that has none, and show the wildcard and the
\* dash.
C7_Witness ==
    /\ "rows" \in ran
    /\ \E s \in RuleSlots : RawRule(s).ResourceNames = <<>> /\ RawRule(s).APIGroups # <<>>
    /\ \E s \in RuleSlots : RawRule(s).ResourceNames = <<>> /\ RawRule(s).APIGroups = <<>>
    /\ \E i \in DOMAIN rows : rows[i][7] = <<"*">>
    /\ \E i \in DOMAIN rows : rows[i][7] = <<"-">>

\* The third case of C7 is reached too: rows built from a rule with
\* resource names "web" and "" show "*,web".
C7_WitnessNames ==
    /\ "rows" \in ran
    /\ \E s \in RuleSlots : RawRule(s).ResourceNames # <<>>
    /\ \E i \in DOMAIN rows : rows[i][7] = <<"*", ",", "w", "e", "b">>

\* C8: in every row the verbs, API groups, resources and non-resource URLs
\* are each shown as "-" when empty and else as the sorted values joined by
\* commas; none of these columns is the empty string.
C8_OtherColumns ==
    "rows" \in ran =>
        LET Shown(i) == <<rows[i][1], rows[i][2], rows[i][4],
                          rows[i][3], rows[i][5], rows[i][6], rows[i][8]>>
            Wanted(s) ==
                <<filteredPolicies[s[1]].Subject.Kind,
                  filteredPolicies[s[1]].Subject.Name,
                  IF s[2] = <<>> THEN <<"*">> ELSE s[2],
                  Rendered(RawRule(s).Verbs, <<"*">>),
                  Rendered(RawRule(s).APIGroups, <<"c", "o", "r", "e">>),
                  Rendered(RawRule(s).Resources, <<"*">>),
                  Rendered(RawRule(s).NonResourceURLs, <<"*">>)>>
        IN  /\ \A i \in DOMAIN rows : \A c \in {3, 5, 6, 8} : rows[i][c] # <<>>
            /\ \A v \in {Shown(i) : i \in DOMAIN rows} \cup {Wanted(s) : s \in RuleSlots} :
                  Count(DOMAIN rows, Shown, v) = Count(RuleSlots, Wanted, v)

\* The documents written so far.
Documents ==
    {stdout[k].doc : k \in {n \in DOMAIN stdout : stdout[n].format \in {"yaml", "json"}}}

\* C9: a written YAML or JSON document holds, for every subject and
\* namespace, the rules with their fields exactly as aggregation produced
\* them from the cluster's entries: building the rows changed nothing.
C9_DocumentHoldsRawRules ==
    \A doc \in Documents :
        \A j \in DOMAIN doc :
            \A ns \in DOMAIN doc[j].Rules :
                doc[j].Rules[ns] = RulesOf(cluster, doc[j].Subject, ns)

\* The one row of the end-to-end scenario.
ScenarioRow ==
    <<<<"S", "e", "r", "v", "i", "c", "e", "A", "c", "c", "o", "u", "n", "t">>, <<"d", "e", "f", "a", "u", "l", "t">>, <<"g", "e", "t", ",", "l", "i", "s", "t">>, <<"*">>, <<"-">>, <<"p", "o", "d", "s">>, <<"-">>, <<"-">>>>

\* The end-to-end scenario: one entry, pattern ".*", no inversion, table.
Scenario ==
    /\ cluster = <<Entry(saDefault, <<>>, rulePods)>>
    /\ SubjectPattern(regex, args) = <<".", "*">>
    /\ ~inverse
    /\ output = "table"

\* C10: a run of the end-to-end scenario that returns without error has
\* written one table of exactly one row: ServiceAccount, default,
\* get,list, *, -, pods, -, -.
C10_EndToEnd ==
    (Scenario /\ pc = "done" /\ err = "") =>
        /\ Len(stdout) = 1
        /\ stdout[1].format = "table"
        /\ stdout[1].rows = <<ScenarioRow>>

\* C10 witness: the scenario given with --regex ".*" has written its table.
C10_Witness ==
    /\ Scenario
    /\ regex = <<".", "*">>
    /\ pc = "done"
    /\ err = ""
    /\ Len(stdout) = 1

====
